---- MODULE Spec2Model ----
(***************************************************************************)
(* Model of AviaxMusic/platforms/Youtube.py: the link normalizer, the      *)
(* id-keyed download cache, the stream-then-download composite and the     *)
(* credential-gated facade operations.                                     *)
(*                                                                         *)
(* Strings are sequences of one-character strings, so that the regular     *)
(* expressions and the str.split calls of the source are computed          *)
(* character by character.  Python's None is the one-element sequence      *)
(* None, which no string of the model equals.                              *)
(***************************************************************************)
EXTENDS Integers, Sequences, FiniteSets, TLC

VARIABLES
    files,       \* paths that exist under the download directory
    cookie_dir,  \* the cookies directory: whether it exists, what it lists
    container,   \* per video, the container the extraction service reports
    proc,        \* per coroutine, the locals of the API call it is inside
    written,     \* history: <<video id, path>> of every file an extraction wrote
    returned,    \* history: <<link, media kind, path>> of every downloaded path returned
    calls        \* API calls started so far

vars == <<files, cookie_dir, container, proc, written, returned, calls>>

(* ------------------------------ bounds --------------------------------- *)
\* Total number of API calls started in one behaviour.
MaxCalls == 2

\* Coroutines of the event loop that may be inside an API call at once.
Procs == {"r1", "r2"}

(* ------------------------------ strings -------------------------------- *)
None == <<"None">>
EMPTY == <<>>

DOWNLOAD_FOLDER == <<"d", "o", "w", "n", "l", "o", "a", "d", "s">>
BASE == <<"h", "t", "t", "p", "s", ":", "/", "/", "w", "w", "w", ".", "y", "o", "u", "t", "u", "b", "e", ".", "c", "o", "m", "/", "w", "a", "t", "c", "h", "?", "v", "=">>
LISTBASE == <<"h", "t", "t", "p", "s", ":", "/", "/", "y", "o", "u", "t", "u", "b", "e", ".", "c", "o", "m", "/", "p", "l", "a", "y", "l", "i", "s", "t", "?", "l", "i", "s", "t", "=">>
PAT_WATCH == <<"y", "o", "u", "t", "u", "b", "e", ".", "c", "o", "m", "/", "w", "a", "t", "c", "h", "?", "v", "=">>
PAT_SHORT == <<"y", "o", "u", "t", "u", ".", "b", "e", "/">>
PAT_EMBED == <<"y", "o", "u", "t", "u", "b", "e", ".", "c", "o", "m", "/", "e", "m", "b", "e", "d", "/">>
PAT_LEGACY == <<"y", "o", "u", "t", "u", "b", "e", ".", "c", "o", "m", "/", "v", "/">>
SCHEME == <<"h", "t", "t", "p", "s", ":", "/", "/", "w", "w", "w", ".">>
SCHEME_SHORT == <<"h", "t", "t", "p", "s", ":", "/", "/">>
OTHER_SITE == <<"h", "t", "t", "p", "s", ":", "/", "/", "e", "x", "a", "m", "p", "l", "e", ".", "c", "o", "m", "/", "?">>
V_EQ == <<"v", "=">>
T_PARAM == <<"t", "=", "1">>
MP3 == <<"m", "p", "3">>
MP4 == <<"m", "p", "4">>
WEBM == <<"w", "e", "b", "m">>
ID_AB == <<"a", "b">>
ID_CD == <<"c", "d">>
SONG == <<"s", "o", "n", "g">>
PLAYLIST_ID == <<"P", "L">>
FAILED_VIDEO == <<"Failed to download video">>
FORMAT_18 == <<"1", "8">>

\* Python truthiness of an Optional[str]: None and "" are falsy.
Truthy(v) == v # None /\ v # EMPTY

Min(S) == CHOOSE x \in S : \A y \in S : x <= y
Max(S) == CHOOSE x \in S : \A y \in S : x >= y

\* s[i..] starts with lit.
StartsAt(lit, s, i) ==
    /\ i + Len(lit) - 1 <= Len(s)
    /\ \A k \in 1..Len(lit) : s[i + k - 1] = lit[k]

\* Positions where lit occurs in s.
Occurrences(lit, s) == {i \in 1..Len(s) : StartsAt(lit, s, i)}

\* Last index of the maximal run of characters other than stop that starts at j.
RunEnd(s, j, stop) ==
    LET stops == {k \in j..Len(s) : s[k] = stop}
    IN  IF stops = {} THEN Len(s) ELSE Min(stops) - 1

\* re.search(lit + "([^stop]+)", s).group(1), or None without a match: the
\* leftmost position where lit is followed by at least one non-stop character,
\* and the greedy run captured there.
re_search(lit, stop, s) ==
    LET hits == {i \in Occurrences(lit, s) :
                    /\ i + Len(lit) <= Len(s)
                    /\ s[i + Len(lit)] # stop}
    IN  IF hits = {} THEN None
        ELSE LET j == Min(hits) + Len(lit)
             IN  SubSeq(s, j, RunEnd(s, j, stop))

\* s.split(sep)[0] for a one-character separator.
split_first(s, sep) == SubSeq(s, 1, RunEnd(s, 1, sep))

\* s.split(lit)[-1]: what follows the last occurrence of lit, or s itself.
split_last(s, lit) ==
    LET occ == Occurrences(lit, s)
    IN  IF occ = {} THEN s
        ELSE SubSeq(s, Max(occ) + Len(lit), Len(s))

(* --------------------------- link normalizer --------------------------- *)
\* The ordered pattern list: <<literal prefix, excluded character>>.
patterns == << <<PAT_WATCH, "&">>, <<PAT_SHORT, "?">>,
               <<PAT_EMBED, "/">>, <<PAT_LEGACY, "/">> >>

RECURSIVE first_match(_, _)
first_match(url, n) ==
    IF n > Len(patterns) THEN None
    ELSE LET m == re_search(patterns[n][1], patterns[n][2], url)
         IN  IF m # None THEN m ELSE first_match(url, n + 1)

extract_video_id(url) == first_match(url, 1)

\* extract_video_id(link) or link.split('v=')[-1].split('&')[0]
video_id_of(link) ==
    IF Truthy(extract_video_id(link)) THEN extract_video_id(link)
    ELSE split_first(split_last(link, V_EQ), "&")

\* if "&" in link: link = link.split("&")[0]
strip_params(link) == split_first(link, "&")

\* if videoid: link = self.base + link
with_base(base, link, videoid) == IF videoid THEN base \o link ELSE link

(* --------------------------- credential selector ----------------------- *)
TXT == <<".", "t", "x", "t">>
COOKIE_A == <<"a", ".", "t", "x", "t">>
COOKIE_B == <<"b", ".", "t", "x", "t">>
NOTES == <<"n", ".", "m", "d">>

\* f.endswith(suffix)
endswith(f, suffix) ==
    /\ Len(f) >= Len(suffix)
    /\ StartsAt(suffix, f, Len(f) - Len(suffix) + 1)

\* The states the cookies directory can be in: absent, empty, without any
\* .txt file, with one, with two among other files.
CookieDirs ==
    { [exists |-> FALSE, listing |-> {}],
      [exists |-> TRUE,  listing |-> {NOTES}],
      [exists |-> TRUE,  listing |-> {COOKIE_A, COOKIE_B, NOTES}] }

\* cookie_txt_file(): the values random.choice can return, {None} when the
\* directory is absent or holds no .txt file.
cookie_txt_file ==
    IF ~cookie_dir.exists THEN {None}
    ELSE LET cookies_files == {f \in cookie_dir.listing : endswith(f, TXT)}
         IN  IF cookies_files = {} THEN {None} ELSE cookies_files

(* ----------------------------- download mode --------------------------- *)
VideoIds == {ID_AB}
VideoExts == {MP4, WEBM}
Exts == VideoExts \cup {MP3}

\* ext = "mp3" if media_type == "audio" else "mp4"
cache_ext(media_type) == IF media_type = "audio" THEN MP3 ELSE MP4

\* os.path.join(DOWNLOAD_FOLDER, f"{video_id}.{ext}")
file_path_of(video_id, ext) == DOWNLOAD_FOLDER \o <<"/">> \o video_id \o <<".">> \o ext

\* ydl_opts["outtmpl"]: the stem under DOWNLOAD_FOLDER and whether the
\* template ends in ".%(ext)s".
outtmpl_of(video_id, media_type, format_id, title) ==
    IF Truthy(format_id) /\ Truthy(title)
    THEN [stem |-> title, with_ext |-> (media_type = "audio")]
    ELSE [stem |-> video_id, with_ext |-> TRUE]

\* The container the extraction service reports in info['ext'] for a request:
\* that of the chosen format id, else that of the site's default selection.
FormatExt(format_id) == MP4

reported_ext(video_id, format_id, title) ==
    IF Truthy(format_id) /\ Truthy(title) THEN FormatExt(format_id)
    ELSE container[video_id]

\* The file extract_info(download=True) leaves behind: the output template
\* with %(ext)s filled in, the audio post-processor turning the extension
\* into mp3.
written_path(outtmpl, media_type, ext) ==
    DOWNLOAD_FOLDER \o <<"/">> \o outtmpl.stem \o
        (IF ~outtmpl.with_ext THEN EMPTY
         ELSE IF media_type = "audio" THEN <<".">> \o MP3
         ELSE <<".">> \o ext)

\* download_outcome without the os.path.exists test of line 107.
download_outcome_unchecked(outcome, media_type, video_id, info_ext, fs) ==
    IF outcome = "raise" THEN [raised |-> FALSE, val |-> None]
    ELSE [raised |-> FALSE,
          val |-> file_path_of(video_id, IF media_type = "audio" THEN MP3 ELSE info_ext)]

\* download_outcome without the try/except of lines 101-110.
download_outcome_unguarded(outcome, media_type, video_id, info_ext, fs) ==
    IF outcome = "raise" THEN [raised |-> TRUE, val |-> None]
    ELSE LET file_path == file_path_of(video_id,
                              IF media_type = "audio" THEN MP3 ELSE info_ext)
         IN  [raised |-> FALSE,
              val |-> IF file_path \in fs THEN file_path ELSE None]

\* Lines 101-112: what download_with_yt_dlp returns once the worker thread
\* is back. A raise of extract_info is caught and logged.
download_outcome(outcome, media_type, video_id, info_ext, fs) ==
    IF outcome = "raise" THEN [raised |-> FALSE, val |-> None]
    ELSE LET file_path == file_path_of(video_id,
                              IF media_type = "audio" THEN MP3 ELSE info_ext)
         IN  [raised |-> FALSE,
              val |-> IF file_path \in fs THEN file_path ELSE None]

(* ------------------------------ stream mode ---------------------------- *)
STREAM_URL == <<"https://googlevideo/stream">>
StreamOutcomes == {"raise", "url", "no_url"}

\* Lines 131-137: info.get('url'), None when extract_info raises.
stream_outcome(outcome) ==
    IF outcome = "raise" THEN [raised |-> FALSE, val |-> None]
    ELSE IF outcome = "url" THEN [raised |-> FALSE, val |-> STREAM_URL]
    ELSE [raised |-> FALSE, val |-> None]

(* ------------------------------- requests ------------------------------ *)
\* Links the callers pass: a watch link carrying a tracking parameter, and
\* the bare id of the same video (with videoid).
LINK_WATCH == SCHEME \o PAT_WATCH \o ID_AB
LINK_WATCH_T == LINK_WATCH \o <<"&">> \o T_PARAM

LinkArgs ==
    {
      [link |-> LINK_WATCH_T, videoid |-> FALSE],
      [link |-> ID_AB, videoid |-> TRUE] }

\* (video, songaudio, songvideo) keyword combinations of download().
DownloadFlags ==
    { [video |-> FALSE, songaudio |-> FALSE, songvideo |-> FALSE],
      [video |-> TRUE,  songaudio |-> FALSE, songvideo |-> FALSE],
      [video |-> FALSE, songaudio |-> TRUE,  songvideo |-> FALSE],
      [video |-> TRUE,  songaudio |-> FALSE, songvideo |-> TRUE] }

\* (format_id, title): the defaults, or a user-chosen encoding and title.
FormatArgs ==
    { [format_id |-> None, title |-> None],
      [format_id |-> FORMAT_18, title |-> SONG] }

\* A coroutine outside any call.
Idle ==
    [ pc |-> "idle", op |-> "none", link |-> EMPTY,
      video |-> FALSE, songaudio |-> FALSE, songvideo |-> FALSE,
      format_id |-> None, title |-> None,
      media_type |-> "none", video_id |-> EMPTY,
      probe |-> "none", stream_url |-> None,
      outcome |-> "none", info_ext |-> None,
      shape |-> "none", duration |-> None, limit |-> 0,
      trace |-> <<>>, prior |-> {}, wrote |-> None, raced |-> FALSE,
      file_path |-> None, result |-> <<>>, raised |-> FALSE ]

\* Number of times event e occurs in a trace.
RECURSIVE Count(_, _)
Count(tr, e) ==
    IF tr = <<>> THEN 0
    ELSE (IF Head(tr) = e THEN 1 ELSE 0) + Count(Tail(tr), e)

\* A composite that falls back to download mode whatever the probe gave.
stream_resolved_never(stream_url) == FALSE

\* if stream_url: (lines 225, 360)

stream_resolved(stream_url) == Truthy(stream_url)

\* video() reporting a failure the way download() does, without a reason.
video_result_null(file_path) ==
    IF Truthy(file_path) THEN <<1, file_path>> ELSE <<0, None>>

\* return (1, file_path) if file_path else (0, "Failed to download video")

video_result(file_path) ==
    IF Truthy(file_path) THEN <<1, file_path>> ELSE <<0, FAILED_VIDEO>>

\* return (file_path, True) if file_path else (None, False)
download_result(file_path) ==
    IF Truthy(file_path) THEN <<file_path, TRUE>> ELSE <<None, FALSE>>

\* The API call of r returns: download mode gave dl (a record of
\* download_outcome's shape).
finish_download(r, dl) ==
    IF dl.raised
    THEN [r EXCEPT !.pc = "done", !.raised = TRUE]
    ELSE [r EXCEPT !.pc = "done", !.file_path = dl.val,
                   !.result = IF r.op = "video" THEN video_result(dl.val)
                              ELSE download_result(dl.val)]

\* The API call of r returns the stream URL.
finish_stream(r, stream_url) ==
    [r EXCEPT !.pc = "done",
              !.result = IF r.op = "video" THEN <<1, stream_url>>
                         ELSE <<stream_url, FALSE>>]

\* Lines 63-103 of download_with_yt_dlp, up to the await: derive the id, look
\* the cache up, return on a hit, else hand extract_info to a worker thread.
enter_download(r, media_type, fs, ret) ==
    LET video_id == video_id_of(r.link)
        file_path == file_path_of(video_id, cache_ext(media_type))
        r1 == [r EXCEPT !.media_type = media_type, !.video_id = video_id,
                        !.trace = Append(@, "download"),
                        !.prior = {x.path : x \in {y \in ret :
                                      y.link = r.link /\ y.media_type = media_type}}]
    IN  IF file_path \in fs
        THEN finish_download(r1, [raised |-> FALSE, val |-> file_path])
        ELSE [r1 EXCEPT !.pc = "dl_thread"]

\* Lines 116-133 of get_stream_url, up to the await.
enter_stream(r) ==
    [r EXCEPT !.pc = "stream_wait", !.media_type = "video",
              !.trace = Append(@, "stream")]

\* Coroutines inside a download of the same id and media kind as r, which
\* missed the cache like r.
Racing(p, r) ==
    {q \in Procs \ {p} :
        /\ proc[q].pc \in {"dl_thread", "dl_resume"}
        /\ proc[q].video_id = r.video_id
        /\ proc[q].media_type = r.media_type}

\* proc with p's record replaced by r; a cache miss of r while others are in
\* the same download marks both sides as raced.
Enter(p, r) ==
    LET racing == IF r.pc = "dl_thread" THEN Racing(p, r) ELSE {}
    IN  [x \in Procs |->
            IF x = p THEN [r EXCEPT !.raced = (racing # {})]
            ELSE IF x \in racing THEN [proc[x] EXCEPT !.raced = TRUE]
            ELSE proc[x]]

(* ------------------------------- actions ------------------------------- *)
\* YouTubeAPI.video(link, videoid), up to the first await.
CallVideo(p) ==
    /\ proc[p].pc \in {"idle", "done"}
    /\ calls < MaxCalls
    /\ \E a \in LinkArgs :
        LET link == strip_params(with_base(BASE, a.link, a.videoid))
            r == [Idle EXCEPT !.op = "video", !.link = link]
        IN  proc' = [proc EXCEPT ![p] = enter_stream(r)]
    /\ calls' = calls + 1
    /\ UNCHANGED <<files, cookie_dir, container, written, returned>>

\* YouTubeAPI.download(link, mystic, video, videoid, songaudio, songvideo,
\* format_id, title), up to the first await or to the return on a cache hit.
CallDownload(p) ==
    /\ proc[p].pc \in {"idle", "done"}
    /\ calls < MaxCalls
    /\ \E a \in LinkArgs, f \in DownloadFlags, ft \in FormatArgs :
        LET link == with_base(BASE, a.link, a.videoid)
            r == [Idle EXCEPT !.op = "download", !.link = link,
                              !.video = f.video, !.songaudio = f.songaudio,
                              !.songvideo = f.songvideo,
                              !.format_id = ft.format_id, !.title = ft.title]
        IN    IF f.songvideo \/ f.songaudio
              THEN proc' = Enter(p, enter_download(r, "audio", files, returned))
              ELSE IF f.video
              THEN proc' = [proc EXCEPT ![p] = enter_stream(r)]
              ELSE proc' = Enter(p, enter_download(r, "audio", files, returned))
    /\ calls' = calls + 1
    /\ UNCHANGED <<files, cookie_dir, container, written, returned>>

\* The probe extract_info(link, download=False) is back in get_stream_url;
\* the caller returns the URL or falls back to download mode.
StreamResume(p) ==
    /\ proc[p].pc = "stream_wait"
    /\ \E o \in StreamOutcomes :
        LET s == stream_outcome(o)
            r == [proc[p] EXCEPT !.probe = o, !.stream_url = s.val]
        IN  IF s.raised
            THEN proc' = [proc EXCEPT ![p] = [r EXCEPT !.pc = "done", !.raised = TRUE]]
            ELSE IF stream_resolved(s.val)
            THEN proc' = [proc EXCEPT ![p] = finish_stream(r, s.val)]
            ELSE proc' = Enter(p, enter_download(r, "video", files, returned))
    /\ UNCHANGED <<files, cookie_dir, container, written, returned, calls>>

\* The worker thread runs extract_info(link, download=True): it raises, or
\* it leaves the media file where the output template says.
DownloadThread(p) ==
    /\ proc[p].pc = "dl_thread"
    /\ LET r == proc[p]
           ext == reported_ext(r.video_id, r.format_id, r.title)
           path == written_path(outtmpl_of(r.video_id, r.media_type, r.format_id, r.title),
                                r.media_type, ext)
       IN  \/ /\ proc' = [proc EXCEPT ![p] = [r EXCEPT !.pc = "dl_resume",
                                    !.outcome = "ok", !.info_ext = ext, !.wrote = path,
                                    !.trace = Append(@, "extract")]]
              /\ files' = files \cup {path}
              /\ written' = written \cup {[video_id |-> r.video_id, path |-> path]}
           \/ /\ proc' = [proc EXCEPT ![p] = [r EXCEPT !.pc = "dl_resume",
                                    !.outcome = "raise",
                                    !.trace = Append(@, "extract")]]
              /\ UNCHANGED <<files, written>>
    /\ UNCHANGED <<cookie_dir, container, returned, calls>>

\* Lines 104-112 once the await is over, and the caller's return.
DownloadResume(p) ==
    /\ proc[p].pc = "dl_resume"
    /\ LET r == proc[p]
           dl == download_outcome(r.outcome, r.media_type, r.video_id, r.info_ext, files)
       IN  /\ proc' = [proc EXCEPT ![p] = finish_download(r, dl)]
           /\ returned' = IF ~dl.raised /\ dl.val # None
                          THEN returned \cup {[link |-> r.link, media_type |-> r.media_type,
                                               path |-> dl.val]}
                          ELSE returned
    /\ UNCHANGED <<files, cookie_dir, container, written, calls>>

\* The download directory starts empty. get_stream_url and
\* download_with_yt_dlp hand the cookie they pick to the extraction service
\* and to nothing else, and the service's outcome is drawn freely by
\* StreamResume and DownloadThread, so one cookie directory stands for all.
Init ==
    /\ files = {}
    /\ cookie_dir \in {d \in CookieDirs : COOKIE_A \in d.listing}
    /\ container \in [VideoIds -> VideoExts]
    /\ proc = [p \in Procs |-> Idle]
    /\ written = {}
    /\ returned = {}
    /\ calls = 0

Next ==
    \E p \in Procs :
        \/ CallVideo(p)
        \/ CallDownload(p)
        \/ StreamResume(p)
        \/ DownloadThread(p)
        \/ DownloadResume(p)

Spec == Init /\ [][Next]_vars

(* ------------------------- metadata/search facade ---------------------- *)
\* URLs handed to the normalizer, each with the id it was built around:
\* the four supported shapes, bare or followed by a query parameter.
SupportedUrls ==
    { [url |-> SCHEME \o PAT_WATCH \o id \o tail, id |-> id, shape |-> "watch"] :
          id \in {ID_AB, ID_CD}, tail \in {EMPTY, <<"&">> \o T_PARAM} }
    \cup
    { [url |-> SCHEME_SHORT \o PAT_SHORT \o id \o tail, id |-> id, shape |-> "short"] :
          id \in {ID_AB, ID_CD}, tail \in {EMPTY, <<"?">> \o T_PARAM} }
    \cup
    { [url |-> SCHEME \o PAT_EMBED \o id \o tail, id |-> id, shape |-> "embed"] :
          id \in {ID_AB, ID_CD}, tail \in {EMPTY, <<"?">> \o T_PARAM, <<"/">>} }
    \cup
    { [url |-> SCHEME \o PAT_LEGACY \o id \o tail, id |-> id, shape |-> "legacy"] :
          id \in {ID_AB, ID_CD}, tail \in {EMPTY, <<"?">> \o T_PARAM, <<"/">>} }

\* URLs of no supported shape: another site with a v parameter, a bare id, a
\* watch link whose v parameter is empty, the empty string.
OtherUrls ==
    { [url |-> OTHER_SITE \o V_EQ \o ID_AB \o <<"&">> \o T_PARAM, id |-> ID_AB, shape |-> "other"],
      [url |-> ID_CD, id |-> ID_CD, shape |-> "other"],
      [url |-> SCHEME \o PAT_WATCH \o <<"&">> \o T_PARAM, id |-> EMPTY, shape |-> "other"],
      [url |-> EMPTY, id |-> EMPTY, shape |-> "other"] }

Urls == SupportedUrls \cup OtherUrls

\* Duration strings of a search result; None when it carries no duration.
Durations ==
    { None, <<"4", "5">>, <<"3", ":", "0", "7">>, <<"4", ":", "2", "0">>,
      <<"1", ":", "0", "2", ":", "0", "3">>,
      <<"1", ":", "0", "0", ":", "0", "0", ":", "0", "0">> }

\* Names bound in the module's namespace by its imports, assignments, defs
\* and class statement.
ModuleNames ==
    { "asyncio", "os", "re", "json", "yt_dlp", "Union", "Optional", "Tuple",
      "MessageEntityType", "Message", "VideosSearch", "logging", "random",
      "List", "logger", "DOWNLOAD_FOLDER", "MAX_RETRIES", "RETRY_DELAY",
      "MAX_FILE_SIZE_MB", "cookie_txt_file", "extract_video_id",
      "download_with_yt_dlp", "get_stream_url", "download_song",
      "download_video", "check_file_size", "YouTubeAPI" }

\* int(s) for a string of decimal digits.
digit(c) == CHOOSE d \in 0..9 : <<"0", "1", "2", "3", "4", "5", "6", "7", "8", "9">>[d + 1] = c

RECURSIVE to_int(_)
to_int(s) == IF s = <<>> THEN 0 ELSE to_int(SubSeq(s, 1, Len(s) - 1)) * 10 + digit(s[Len(s)])

\* s.split(":")
RECURSIVE split_colon(_)
split_colon(s) ==
    IF \A k \in 1..Len(s) : s[k] # ":" THEN <<s>>
    ELSE <<split_first(s, ":")>> \o split_colon(SubSeq(s, Len(split_first(s, ":")) + 2, Len(s)))

RECURSIVE weigh(_)
weigh(segments) ==
    IF segments = <<>> THEN 0
    ELSE LET n == Len(segments)
             unit == IF n = 1 THEN 1 ELSE IF n = 2 THEN 60
                     ELSE IF n = 3 THEN 3600 ELSE 86400
         IN  to_int(Head(segments)) * unit + weigh(Tail(segments))

\* Total seconds of a colon-delimited duration string of 1 to 4 segments.
time_to_seconds(duration) == weigh(split_colon(duration))

\* duration_sec = 0 if str(duration_min) == "None"
\*                else int(time_to_seconds(duration_min))
\* A name the module does not bind raises NameError when it is evaluated.
duration_sec(duration_min) ==
    IF duration_min = None THEN [raised |-> FALSE, val |-> 0]
    ELSE IF "time_to_seconds" \in ModuleNames
    THEN [raised |-> FALSE, val |-> time_to_seconds(duration_min)]
    ELSE [raised |-> TRUE, val |-> 0]

\* Formats the extraction service lists; filesize may be missing a value.
F_360 == [format |-> <<"1", "8", " ", "3", "6", "0", "p">>,
          filesize |-> 10, sized |-> TRUE, format_id |-> FORMAT_18, ext |-> MP4]
F_DASH == [format |-> <<"1", "4", "0", " ", "D", "A", "S", "H">>,
           filesize |-> 7, sized |-> TRUE, format_id |-> <<"1", "4", "0">>, ext |-> WEBM]
F_NOSIZE == [format |-> <<"2", "2">>,
             filesize |-> 0, sized |-> FALSE, format_id |-> <<"2", "2">>, ext |-> MP4]
FormatLists == { <<>>, <<F_360, F_DASH>>, <<F_DASH, F_NOSIZE>> }

\* str.lower() on the characters of the model's labels.
lower_char(c) ==
    IF c = "D" THEN "d" ELSE IF c = "A" THEN "a" ELSE IF c = "S" THEN "s"
    ELSE IF c = "H" THEN "h" ELSE c
lower(s) == [i \in 1..Len(s) |-> lower_char(s[i])]

\* Lines 296-308: the non-DASH formats, each with the link.
RECURSIVE non_dash(_, _)
non_dash(fmts, link) ==
    IF fmts = <<>> THEN <<>>
    ELSE LET f == Head(fmts)
             rest == non_dash(Tail(fmts), link)
         IN  IF Occurrences(<<"d", "a", "s", "h">>, lower(f.format)) = {}
             THEN <<[format |-> f.format, filesize |-> f.filesize, sized |-> f.sized,
                     format_id |-> f.format_id, ext |-> f.ext, yturl |-> link]>> \o rest
             ELSE rest

\* Lines 163-165: sum of the filesize values; a None among them raises
\* TypeError inside the try.
RECURSIVE total_size(_)
total_size(fmts) ==
    IF fmts = <<>> THEN [raised |-> FALSE, val |-> 0]
    ELSE LET rest == total_size(Tail(fmts))
         IN  IF ~Head(fmts).sized \/ rest.raised
             THEN [raised |-> TRUE, val |-> 0]
             ELSE [raised |-> FALSE, val |-> Head(fmts).filesize + rest.val]

\* Playlists as the extraction service lists them, and the limits asked for.
Playlists == { <<>>, <<ID_AB, ID_CD>> }
Limits == {0, 1, 2}

\* entries[:limit]
take(entries, limit) == SubSeq(entries, 1, IF limit < Len(entries) THEN limit ELSE Len(entries))

\* The operations without their missing-credential test.
needs_cookie_never(cookie_file) == FALSE

\* if not cookie_file: the operation returns before any extraction.

needs_cookie(cookie_file) == ~Truthy(cookie_file)

\* The value an auth-requiring operation returns without a credential and
\* when the extraction raises.
empty_result(op, link) ==
    IF op = "playlist" THEN <<>>
    ELSE IF op = "formats" THEN << <<>>, link >>
    ELSE None

\* Lines 238-251, 282-294, 149-162: pick a credential, return empty-handed
\* without one, else hand extract_info to a worker thread.
enter_gated(r, cookie_file) ==
    IF needs_cookie(cookie_file)
    THEN [r EXCEPT !.pc = "done", !.result = empty_result(r.op, r.link)]
    ELSE [r EXCEPT !.pc = "gated_wait", !.trace = Append(@, "extract")]

\* The facade runs on one coroutine.
FacadeProc == "r1"

\* extract_video_id(url)
CallExtractVideoId ==
    /\ proc[FacadeProc].pc \in {"idle", "done"}
    /\ calls < MaxCalls
    /\ \E u \in Urls :
         proc' = [proc EXCEPT ![FacadeProc] =
                    [Idle EXCEPT !.pc = "done", !.op = "extract_video_id",
                                 !.link = u.url, !.video_id = u.id,
                                 !.shape = u.shape,
                                 !.result = <<extract_video_id(u.url), video_id_of(u.url)>>]]
    /\ calls' = calls + 1
    /\ UNCHANGED <<files, cookie_dir, container, written, returned>>

\* YouTubeAPI.details(link, videoid) on a search result with the duration d.
CallDetails ==
    /\ proc[FacadeProc].pc \in {"idle", "done"}
    /\ calls < MaxCalls
    /\ \E a \in LinkArgs, d \in Durations :
         LET link == strip_params(with_base(BASE, a.link, a.videoid))
             sec == duration_sec(d)
         IN  proc' = [proc EXCEPT ![FacadeProc] =
                        [Idle EXCEPT !.pc = "done", !.op = "details", !.link = link,
                                     !.duration = d,
                                     !.raised = sec.raised,
                                     !.result = IF sec.raised THEN <<>>
                                                ELSE <<d, sec.val, ID_AB>>]]
    /\ calls' = calls + 1
    /\ UNCHANGED <<files, cookie_dir, container, written, returned>>

\* YouTubeAPI.playlist(link, limit, user_id, videoid), up to the await.
CallPlaylist ==
    /\ proc[FacadeProc].pc \in {"idle", "done"}
    /\ calls < MaxCalls
    /\ \E videoid \in BOOLEAN, limit \in Limits, cookie_file \in cookie_txt_file :
         LET link == strip_params(with_base(LISTBASE, PLAYLIST_ID, videoid))
         IN  proc' = [proc EXCEPT ![FacadeProc] =
                        enter_gated([Idle EXCEPT !.op = "playlist", !.link = link,
                                                 !.limit = limit], cookie_file)]
    /\ calls' = calls + 1
    /\ UNCHANGED <<files, cookie_dir, container, written, returned>>

\* YouTubeAPI.formats(link, videoid), up to the await.
CallFormats ==
    /\ proc[FacadeProc].pc \in {"idle", "done"}
    /\ calls < MaxCalls
    /\ \E a \in LinkArgs, cookie_file \in cookie_txt_file :
         LET link == strip_params(with_base(BASE, a.link, a.videoid))
         IN  proc' = [proc EXCEPT ![FacadeProc] =
                        enter_gated([Idle EXCEPT !.op = "formats", !.link = link],
                                    cookie_file)]
    /\ calls' = calls + 1
    /\ UNCHANGED <<files, cookie_dir, container, written, returned>>

\* check_file_size(link), up to the await.
CallCheckFileSize ==
    /\ proc[FacadeProc].pc \in {"idle", "done"}
    /\ calls < MaxCalls
    /\ \E a \in LinkArgs, cookie_file \in cookie_txt_file :
         proc' = [proc EXCEPT ![FacadeProc] =
                    enter_gated([Idle EXCEPT !.op = "check_file_size", !.link = a.link],
                                cookie_file)]
    /\ calls' = calls + 1
    /\ UNCHANGED <<files, cookie_dir, container, written, returned>>

\* extract_info(link, download=False) is back in a credential-gated
\* operation: the result is shaped, or the raise is caught.
GatedResume ==
    /\ proc[FacadeProc].pc = "gated_wait"
    /\ LET r == proc[FacadeProc]
       IN  \/ proc' = [proc EXCEPT ![FacadeProc] =
                         [r EXCEPT !.pc = "done", !.outcome = "raise",
                                   !.result = empty_result(r.op, r.link)]]
           \/ /\ r.op = "playlist"
              /\ \E entries \in Playlists :
                   proc' = [proc EXCEPT ![FacadeProc] =
                              [r EXCEPT !.pc = "done", !.outcome = "ok",
                                        !.result = take(entries, r.limit)]]
           \/ /\ r.op = "formats"
              /\ \E fmts \in FormatLists :
                   proc' = [proc EXCEPT ![FacadeProc] =
                              [r EXCEPT !.pc = "done", !.outcome = "ok",
                                        !.result = <<non_dash(fmts, r.link), r.link>>]]
           \/ /\ r.op = "check_file_size"
              /\ \E fmts \in FormatLists :
                   LET t == total_size(fmts)
                   IN  proc' = [proc EXCEPT ![FacadeProc] =
                                  [r EXCEPT !.pc = "done", !.outcome = "ok",
                                            !.result = IF t.raised THEN None
                                                       ELSE <<t.val>>]]
    /\ UNCHANGED <<files, cookie_dir, container, written, returned, calls>>

InitFacade ==
    /\ files = {}
    /\ cookie_dir \in CookieDirs
    /\ container \in [VideoIds -> VideoExts]
    /\ proc = [p \in Procs |-> Idle]
    /\ written = {}
    /\ returned = {}
    /\ calls = 0

NextFacade ==
    \/ CallExtractVideoId
    \/ CallDetails
    \/ CallPlaylist
    \/ CallFormats
    \/ CallCheckFileSize
    \/ GatedResume

SpecFacade == InitFacade /\ [][NextFacade]_vars

(* ------------------------------ properties ----------------------------- *)
\* Calls the composite policy is said to cover, and those it does cover: the
\* song flags of download() are tested before its video flag.
CompositeAsClaimed(r) == r.op = "video" \/ (r.op = "download" /\ r.video)
Composite(r) ==
    r.op = "video" \/ (r.op = "download" /\ r.video /\ ~(r.songvideo \/ r.songaudio))

\* The probe came first and once; download mode ran not at all after a URL,
\* once and with at most one extraction after a failed probe.
StreamThenDownload(r) ==
    /\ r.trace # <<>>
    /\ Head(r.trace) = "stream"
    /\ Count(r.trace, "stream") = 1
    /\ Count(r.trace, "extract") <= 1
    /\ r.pc = "stream_wait" => Count(r.trace, "download") = 0
    /\ r.pc \in {"dl_thread", "dl_resume"} =>
          ~Truthy(r.stream_url) /\ Count(r.trace, "download") = 1
    /\ r.pc = "done" =>
          IF Truthy(r.stream_url) THEN Count(r.trace, "download") = 0
          ELSE Count(r.trace, "download") = 1

\* C1 as stated: in YouTubeAPI.video and in every YouTubeAPI.download call
\* with video=True the stream probe is invoked first; a URL means download
\* mode is never attempted, a failed probe means it is attempted exactly once.
C1_StreamFirstWheneverVideoFlag ==
    \A p \in Procs : CompositeAsClaimed(proc[p]) => StreamThenDownload(proc[p])

\* C1 amended: the same, for YouTubeAPI.video and for YouTubeAPI.download
\* with video=True and neither songvideo nor songaudio set.
C1_StreamFirstInComposite ==
    \A p \in Procs : Composite(proc[p]) => StreamThenDownload(proc[p])

\* A download(video=True) call whose probe failed, which fell back to
\* download mode once, extracted once and returned the local file.
C1_Witness ==
    \E p \in Procs :
        /\ proc[p].op = "download" /\ Composite(proc[p]) /\ proc[p].pc = "done"
        /\ proc[p].probe = "no_url"
        /\ proc[p].trace = <<"stream", "download", "extract">>
        /\ proc[p].result = <<proc[p].file_path, TRUE>>
        /\ proc[p].file_path # None

\* C2: once a download_with_yt_dlp call for a link and media kind has
\* downloaded and returned P, a later call with the same link and kind
\* returns P at once, without invoking the extraction service.
C2_DownloadIdempotent ==
    \A p \in Procs :
        proc[p].prior # {} =>
            /\ proc[p].pc = "done"
            /\ proc[p].file_path \in proc[p].prior
            /\ Count(proc[p].trace, "extract") = 0

\* C3: every file written into the download directory for video id V is
\* named <download-dir>/<V>.<ext>.
C3_WrittenFilesKeyedById ==
    \A w \in written :
        \E ext \in Exts : w.path = file_path_of(w.video_id, ext)

\* Both modes were tried by the call of r and both failed.
BothFailed(r) ==
    /\ r.pc = "done" /\ ~r.raised
    /\ r.probe # "none" /\ ~Truthy(r.stream_url)
    /\ Count(r.trace, "download") = 1 /\ r.file_path = None

\* C4 as stated: when the probe and the fallback both fail, the result of
\* video() and of download(video=True) carries a failure reason string, never
\* a bare null.
C4_FailureCarriesReason ==
    \A p \in Procs :
        CompositeAsClaimed(proc[p]) /\ BothFailed(proc[p]) =>
            IF proc[p].op = "video" THEN Truthy(proc[p].result[2])
            ELSE Truthy(proc[p].result[1])

\* C4 amended: when both fail, video() returns (0, "Failed to download
\* video"), while download(video=True) returns (None, False), a null path
\* with no reason string.
C4_FailureResults ==
    \A p \in Procs :
        Composite(proc[p]) /\ BothFailed(proc[p]) =>
            IF proc[p].op = "video" THEN proc[p].result = <<0, FAILED_VIDEO>>
            ELSE proc[p].result = <<None, FALSE>>

\* A video() call and a download(video=True) call that both failed twice.
C4_Witness ==
    \E p, q \in Procs :
        /\ proc[p].op = "video" /\ BothFailed(proc[p])
        /\ proc[q].op = "download" /\ Composite(proc[q]) /\ BothFailed(proc[q])

\* C5: a raise of the extraction service in get_stream_url or in
\* download_with_yt_dlp never reaches the caller: the function returns None,
\* and video() and download() return their failure value.
C5_ExtractionFailureNeverPropagates ==
    \A p \in Procs :
        /\ ~proc[p].raised
        /\ proc[p].probe = "raise" => proc[p].stream_url = None
        /\ proc[p].pc = "done" /\ proc[p].outcome = "raise" =>
              /\ proc[p].file_path = None
              /\ proc[p].result = IF proc[p].op = "video" THEN <<0, FAILED_VIDEO>>
                                  ELSE <<None, FALSE>>

\* A call in which the probe raised and then the download raised too.
C5_Witness ==
    \E p \in Procs :
        /\ proc[p].pc = "done" /\ ~proc[p].raised
        /\ proc[p].probe = "raise" /\ proc[p].outcome = "raise"

\* C6: without a credential (cookie directory absent or without a .txt
\* file) playlist returns [], formats returns ([], link) and check_file_size
\* returns None, none of them raising or invoking the extraction service.
C6_NoCredentialShortCircuits ==
    \A p \in Procs :
        proc[p].op \in {"playlist", "formats", "check_file_size"}
        /\ (~cookie_dir.exists \/ \A f \in cookie_dir.listing : ~endswith(f, TXT)) =>
            /\ proc[p].pc = "done"
            /\ ~proc[p].raised
            /\ Count(proc[p].trace, "extract") = 0
            /\ proc[p].op = "playlist" => proc[p].result = <<>>
            /\ proc[p].op = "formats" => proc[p].result = << <<>>, proc[p].link >>
            /\ proc[p].op = "check_file_size" => proc[p].result = None

\* A formats() call made while the cookie directory holds no .txt file.
C6_Witness ==
    \E p \in Procs :
        /\ proc[p].op = "formats" /\ proc[p].pc = "done"
        /\ cookie_dir.exists /\ cookie_dir.listing = {NOTES}
        /\ proc[p].result = << <<>>, LINK_WATCH >>

\* C7: details() completes and its duration in seconds is 0 for an absent
\* duration and else the total of the 1 to 4 colon-delimited segments, 260
\* for "4:20".
C7_DetailsDurationSeconds ==
    \A p \in Procs :
        proc[p].op = "details" /\ proc[p].pc = "done" =>
            /\ ~proc[p].raised
            /\ proc[p].result[2] = IF proc[p].duration = None THEN 0
                                   ELSE time_to_seconds(proc[p].duration)
            /\ proc[p].duration = <<"4", ":", "2", "0">> => proc[p].result[2] = 260

\* C8: for a URL of a supported shape extract_video_id returns exactly the
\* id, without trailing parameters or path segments; for any other URL it
\* returns None and the manual fallback yields a string.
C8_NormalizerExtractsExactId ==
    \A p \in Procs :
        proc[p].op = "extract_video_id" /\ proc[p].pc = "done" =>
            /\ ~proc[p].raised
            /\ proc[p].shape # "other" => proc[p].result[1] = proc[p].video_id
            /\ proc[p].shape = "other" =>
                  /\ proc[p].result[1] = None
                  /\ proc[p].result[2] = proc[p].video_id

\* A download result of r that is a path.
Returned(r) == r.pc = "done" /\ ~r.raised /\ r.file_path # None

\* C9: two download-mode requests for the same id and media kind that both
\* miss the cache run unserialized; whichever returns a path returns the
\* id-derived path, which exists when it is returned, and both return the
\* same one.
C9_RacingDownloadsAgree ==
    /\ \A p \in Procs :
          proc[p].raced /\ Returned(proc[p]) =>
              /\ proc[p].file_path \in files
              /\ \E ext \in Exts :
                    proc[p].file_path = file_path_of(proc[p].video_id, ext)
    /\ \A p, q \in Procs :
          /\ proc[p].raced /\ Returned(proc[p])
          /\ proc[q].raced /\ Returned(proc[q])
          /\ proc[p].video_id = proc[q].video_id
          /\ proc[p].media_type = proc[q].media_type
          => proc[p].file_path = proc[q].file_path

\* Two requests raced, both ran the extraction download, both returned the
\* same path.
C9_Witness ==
    \E p, q \in Procs :
        /\ p # q
        /\ proc[p].raced /\ Returned(proc[p]) /\ proc[p].outcome = "ok"
        /\ proc[q].raced /\ Returned(proc[q]) /\ proc[q].outcome = "ok"
        /\ proc[p].file_path = proc[q].file_path

\* C10: on a cache miss, when the extraction download completes without
\* raising and has written the media file, download_with_yt_dlp returns the
\* path of that file, and download() returns (path, True).
C10_CompletedDownloadReturnsWrittenFile ==
    \A p \in Procs :
        proc[p].pc = "done" /\ proc[p].outcome = "ok" /\ proc[p].wrote # None =>
            /\ proc[p].file_path = proc[p].wrote
            /\ proc[p].op = "download" => proc[p].result = <<proc[p].wrote, TRUE>>

====
